---------------------------- MODULE Spec2Model ----------------------------
(***************************************************************************)
(* The chat proxy endpoint of porto-astro: src/src/pages/api/chat.ts.      *)
(*                                                                         *)
(* POST reads the inbound JSON body, forwards message and context to the  *)
(* Groq chat-completion API and answers with the generated text or with   *)
(* one of two canned strings.  The handler has three await points         *)
(* (request.json(), fetch(), response.json()); several invocations may be *)
(* in flight and interleave at those points.                              *)
(*                                                                         *)
(* JavaScript values are tagged records; a JSON text is represented by   *)
(* the value it parses to, and BadText is a text that does not parse.    *)
(* Non-ASCII characters of the source's string literals are written in   *)
(* ASCII ("*" for the bullet, ":)" for the emoji).                        *)
(***************************************************************************)
EXTENDS Integers, Sequences, FiniteSets, TLC

(***************************************************************************)
(* JavaScript values                                                       *)
(***************************************************************************)
Undefined == [t |-> "undefined"]
Null == [t |-> "null"]
Str(s) == [t |-> "string", s |-> s]
Num(n) == [t |-> "number", n |-> n]
\* A decimal number digits * 10^-places (0.7 is Dec(7, 1)).
Dec(digits, places) == [t |-> "number", n |-> digits, places |-> places]
Obj(fields) == [t |-> "object", f |-> fields]
Arr(items) == [t |-> "array", items |-> items]
NoFields == [k \in {} |-> Undefined]

\* A thrown exception, as the result of evaluating an expression.
Throw(error) == [t |-> "throw", error |-> error]
IsThrow(v) == v.t = "throw"

\* A body text that is not JSON.
BadText == [t |-> "badtext"]

Nullish(v) == v.t \in {"undefined", "null"}

\* ToBoolean: what `||` tests.
Truthy(v) ==
  CASE v.t = "undefined" -> FALSE
    [] v.t = "null" -> FALSE
    [] v.t = "string" -> v.s # ""
    [] v.t = "number" -> v.n # 0
    [] OTHER -> TRUE

\* a || b
OrElse(a, b) == IF Truthy(a) THEN a ELSE b

\* v.key : a TypeError on undefined and null, undefined for a key the value
\* does not have.
Get(v, key) ==
  IF IsThrow(v) THEN v
  ELSE IF Nullish(v) THEN Throw("TypeError")
  ELSE IF v.t = "object" /\ key \in DOMAIN v.f THEN v.f[key]
  ELSE Undefined

\* v[0] : a TypeError on undefined and null, the first element of a
\* non-empty array, undefined for an empty array, a number or an object
\* without the key "0".
First(v) ==
  IF IsThrow(v) THEN v
  ELSE IF Nullish(v) THEN Throw("TypeError")
  ELSE IF v.t = "array" /\ Len(v.items) > 0 THEN v.items[1]
  ELSE Undefined

\* v?.key : undefined on undefined and null, v.key otherwise.
OptGet(v, key) ==
  IF IsThrow(v) THEN v
  ELSE IF Nullish(v) THEN Undefined
  ELSE Get(v, key)

\* Mutant of JSONParse: .json().catch(() => ({})), a text that is not JSON
\* reads as an empty object.
JSONParseOrEmpty(text) == IF text = BadText THEN Obj(NoFields) ELSE text

\* JSON.parse of a body text (request.json(), response.json()): a
\* SyntaxError for a text that is not JSON.
JSONParse(text) == IF text = BadText THEN Throw("SyntaxError") ELSE text

\* JSON.stringify: a property whose value is undefined is left out, an
\* undefined array element becomes null; the text is represented by the
\* value it parses to.
RECURSIVE JSONStringify(_)
JSONStringify(v) ==
  CASE v.t = "object" ->
         Obj([k \in {key \in DOMAIN v.f : v.f[key] # Undefined} |->
                JSONStringify(v.f[k])])
    [] v.t = "array" ->
         Arr([n \in 1..Len(v.items) |->
                IF v.items[n] = Undefined THEN Null
                ELSE JSONStringify(v.items[n])])
    [] OTHER -> v

(***************************************************************************)
(* The literals of chat.ts                                                 *)
(***************************************************************************)
GroqUrl == "https://api.groq.com/openai/v1/chat/completions"
DemoKey == "gsk_demo_key"
GroqModel == "llama-3.3-70b-versatile"
DefaultSystem == "You are a helpful assistant."
Temperature == Dec(7, 1)
MaxTokens == 500
CapabilityFallback ==
  "I'm Adam's AI assistant! I can help you learn about:\n\n* My experience as an IT Trainer at Enigma Camp\n* My technical skills (Java Spring Boot, React, Angular)\n* My projects and portfolio\n* My education and certifications\n\nWhat would you like to know?"
Apology == "I apologize, I could not process that request."
InvitationFallback ==
  "I'm here to help you learn about Adam Maulana! Ask me about his experience, skills, projects, or how to contact him. :)"

(***************************************************************************)
(* The expressions of POST                                                 *)
(***************************************************************************)
\* Mutant of ApiKey: import.meta.env.GROQ_API_KEY ?? 'gsk_demo_key'
ApiKeyNullish(envKey) == IF Nullish(envKey) THEN Str(DemoKey) ELSE envKey

\* import.meta.env.GROQ_API_KEY || 'gsk_demo_key'
ApiKey(envKey) == OrElse(envKey, Str(DemoKey))

\* Mutant of SystemContent: context ?? 'You are a helpful assistant.'
SystemContentNullish(ctx) == IF Nullish(ctx) THEN Str(DefaultSystem) ELSE ctx

\* Mutant of SystemContent:
\* context === undefined ? 'You are a helpful assistant.' : context
SystemContentUndefinedOnly(ctx) ==
  IF ctx = Undefined THEN Str(DefaultSystem) ELSE ctx

\* context || 'You are a helpful assistant.'
SystemContent(ctx) == OrElse(ctx, Str(DefaultSystem))

\* messages: [{ role: 'system', ... }, { role: 'user', ... }]
ChatMessages(msg, ctx) ==
  Arr(<<Obj([role |-> Str("system"), content |-> SystemContent(ctx)]),
        Obj([role |-> Str("user"), content |-> msg])>>)

\* Mutant of FetchBody: max_tokens is left out of the body.
FetchBodyNoMaxTokens(msg, ctx) ==
  JSONStringify(Obj([model |-> Str(GroqModel),
                     messages |-> ChatMessages(msg, ctx),
                     temperature |-> Temperature]))

\* body: JSON.stringify({ model, messages, temperature, max_tokens })
FetchBody(msg, ctx) ==
  JSONStringify(Obj([model |-> Str(GroqModel),
                     messages |-> ChatMessages(msg, ctx),
                     temperature |-> Temperature,
                     max_tokens |-> Num(MaxTokens)]))

\* fetch(url, { method, headers, body })
FetchCall(msg, ctx, envKey) ==
  [url |-> GroqUrl,
   method |-> "POST",
   headers |-> [Authorization |-> "Bearer " \o ApiKey(envKey).s,
                ContentType |-> "application/json"],
   body |-> FetchBody(msg, ctx)]

\* Mutant of Ok: only status 200 counts as success.
OkOnly200(status) == status = 200

\* response.ok: the status is in the range 200-299.
Ok(status) == status \in 200..299

\* Mutant of BotMessage: the last choice is taken, not the first.
BotMessageLastChoice(data) ==
  LET choices == Get(data, "choices")
      last == IF IsThrow(choices) \/ Nullish(choices) THEN First(choices)
              ELSE IF choices.t = "array" /\ Len(choices.items) > 0
                   THEN choices.items[Len(choices.items)]
              ELSE Undefined
      content == OptGet(OptGet(last, "message"), "content")
  IN  IF IsThrow(content) THEN content ELSE OrElse(content, Str(Apology))

\* Mutant of BotMessage: data.choices[0].message.content, no optional
\* chaining.
BotMessageNoOptionalChaining(data) ==
  LET content == Get(Get(First(Get(data, "choices")), "message"), "content")
  IN  IF IsThrow(content) THEN content ELSE OrElse(content, Str(Apology))

\* Mutant of BotMessage: data.choices[0]?.message?.content ?? 'I apologize, ...'
BotMessageNullish(data) ==
  LET content == OptGet(OptGet(First(Get(data, "choices")), "message"),
                        "content")
  IN  IF IsThrow(content) THEN content
      ELSE IF Nullish(content) THEN Str(Apology)
      ELSE content

\* Mutant of BotMessage: data.choices?.[0]?.message?.content || 'I apologize, ...'
BotMessageOptionalChoices(data) ==
  LET choices == Get(data, "choices")
      first == IF IsThrow(choices) THEN choices
               ELSE IF Nullish(choices) THEN Undefined
               ELSE First(choices)
      content == OptGet(OptGet(first, "message"), "content")
  IN  IF IsThrow(content) THEN content ELSE OrElse(content, Str(Apology))

\* data.choices[0]?.message?.content || 'I apologize, ...'
BotMessage(data) ==
  LET content == OptGet(OptGet(First(Get(data, "choices")), "message"),
                        "content")
  IN  IF IsThrow(content) THEN content ELSE OrElse(content, Str(Apology))

\* Mutant of RejectionResponse: the two fallbacks collapsed into the
\* invitation string.
RejectionResponseAsCatch(resp) ==
  [status |-> 200,
   headers |-> [ContentType |-> "application/json"],
   body |-> JSONStringify(Obj([message |-> Str(InvitationFallback)]))]

\* new Response(JSON.stringify({ message: `I'm Adam's AI assistant! ...` }),
\*              { status: 200, headers }) of the !response.ok branch
RejectionResponse(resp) ==
  [status |-> 200,
   headers |-> [ContentType |-> "application/json"],
   body |-> JSONStringify(Obj([message |-> Str(CapabilityFallback)]))]

\* new Response(JSON.stringify({ message: botMessage }), { status: 200, headers })
SuccessResponse(botMessage) ==
  [status |-> 200,
   headers |-> [ContentType |-> "application/json"],
   body |-> JSONStringify(Obj([message |-> botMessage]))]

\* Mutant of CatchResponse: the failure is surfaced as status 500.
CatchResponseStatus500(error) ==
  [status |-> 500,
   headers |-> [ContentType |-> "application/json"],
   body |-> JSONStringify(Obj([message |-> Str(InvitationFallback)]))]

\* Mutant of CatchResponse: the two fallbacks collapsed into the
\* capability-description string.
CatchResponseAsRejection(error) ==
  [status |-> 200,
   headers |-> [ContentType |-> "application/json"],
   body |-> JSONStringify(Obj([message |-> Str(CapabilityFallback)]))]

\* Mutant of CatchResponse: the catch block answers with the apology string.
CatchResponseAsApology(error) ==
  [status |-> 200,
   headers |-> [ContentType |-> "application/json"],
   body |-> JSONStringify(Obj([message |-> Str(Apology)]))]

\* Mutant of CatchResponse: the exception's text is put in the reply.
CatchResponseWithError(error) ==
  [status |-> 200,
   headers |-> [ContentType |-> "application/json"],
   body |-> JSONStringify(Obj([message |-> Str(error)]))]

\* new Response(JSON.stringify({ message: "I'm here to help ..." }),
\*              { status: 200, headers }) of the catch block
CatchResponse(error) ==
  [status |-> 200,
   headers |-> [ContentType |-> "application/json"],
   body |-> JSONStringify(Obj([message |-> Str(InvitationFallback)]))]

\* console.error('Chat API error:', error)
LogEntry(error) == <<"Chat API error:", error>>

(***************************************************************************)
(* The environment: inbound requests and what the provider answers         *)
(***************************************************************************)
\* The number of invocations that may be in flight together.
NumInvocations == 2
Invocations == 1..NumInvocations

NoRequest == [t |-> "norequest"]
NoOutcome == [kind |-> "none"]
NoResponse == [t |-> "noresponse"]
NoReply == [t |-> "noreply"]

\* An upstream body with the given first-choice content.
Completion(content) ==
  Obj([choices |-> Arr(<<Obj([message |-> Obj([role |-> Str("assistant"),
                                               content |-> content])])>>)])

Rejects(error) == [kind |-> "rejects", error |-> error]
\* A fetch that neither resolves nor rejects; the call sets no timeout.
Hangs == [kind |-> "hangs"]
Responds(status, body) == [kind |-> "responds", status |-> status, body |-> body]

\* The values of import.meta.env.GROQ_API_KEY: not set, empty, set.
EnvKeys == {Undefined, Str(""), Str("gsk_live")}

\* Inbound bodies of an invocation checked alone.
RequestBodies ==
  {BadText,
   Null,
   Num(7),
   Obj([message |-> Str("Hi"), context |-> Str("You are Adam's assistant.")]),
   Obj([message |-> Str("Hi")]),
   Obj([message |-> Str("Hi"), context |-> Str("")]),
   Obj([message |-> Str("Hi"), context |-> Null]),
   Obj([message |-> Str("Hi"), context |-> Num(0)]),
   Obj([message |-> Str(""), context |-> Str("You are Adam's assistant.")]),
   Obj([context |-> Str("You are Adam's assistant.")]),
   Obj([message |-> Str("Hi"), model |-> Str("gpt-4"), temperature |-> Num(2),
        max_tokens |-> Num(9999), method |-> Str("GET"),
        url |-> Str("https://example.com/")])}

\* Upstream outcomes of an invocation checked alone.
Outcomes ==
  {Hangs,
   Rejects("fetch failed"),
   Rejects("ETIMEDOUT"),
   Responds(401, Obj([error |-> Obj([message |-> Str("Invalid API Key")])])),
   Responds(401, BadText),
   Responds(429, Completion(Str("Hello!"))),
   Responds(500, BadText),
   Responds(201, Completion(Str("Hello!"))),
   Responds(200, BadText),
   Responds(200, Null),
   Responds(200, Obj(NoFields)),
   Responds(200, Obj([choices |-> Null])),
   Responds(200, Obj([choices |-> Num(3)])),
   Responds(200, Obj([choices |-> Arr(<<>>)])),
   Responds(200, Obj([choices |-> Arr(<<Null>>)])),
   Responds(200, Obj([choices |-> Arr(<<Obj(NoFields)>>)])),
   Responds(200, Obj([choices |-> Arr(<<Obj([message |-> Null])>>)])),
   Responds(200, Obj([choices |-> Arr(<<Obj([message |-> Obj(NoFields)])>>)])),
   Responds(200, Completion(Null)),
   Responds(200, Completion(Str(""))),
   Responds(200, Completion(Num(0))),
   Responds(200, Completion(Num(42))),
   Responds(200, Completion(Obj([text |-> Str("Hello!")]))),
   Responds(200, Completion(Str("Hello!"))),
   Responds(200, Completion(Str("  Hello!\n"))),
   Responds(200, Completion(Str(CapabilityFallback))),
   Responds(200, Completion(Str(InvitationFallback))),
   Responds(200, Obj([choices |->
      Arr(<<Obj([message |-> Obj([content |-> Str("Hello!")])]),
            Obj([message |-> Obj([content |-> Str("Second")])])>>)]))}

\* Inbound bodies and upstream outcomes of invocations in flight together.
ConcurrentRequestBodies ==
  {BadText,
   Obj([message |-> Str("Hi"), context |-> Str("You are Adam's assistant.")]),
   Obj([message |-> Str("Yo")])}

ConcurrentOutcomes ==
  {Hangs,
   Rejects("fetch failed"),
   Rejects("ETIMEDOUT"),
   Responds(500, BadText),
   Responds(200, Completion(Str("Hello!"))),
   Responds(200, Obj([choices |-> Arr(<<>>)]))}

FairRequestBodies ==
  {BadText,
   Obj([message |-> Str("Hi"), context |-> Str("You are Adam's assistant.")])}

FairOutcomes ==
  {Hangs,
   Rejects("fetch failed"),
   Responds(401, BadText),
   Responds(200, BadText),
   Responds(200, Completion(Str("Hello!")))}

(***************************************************************************)
(* The state                                                               *)
(***************************************************************************)
VARIABLES
  env,       \* import.meta.env.GROQ_API_KEY
  request,   \* request[i]: the inbound body of invocation i
  upstream,  \* upstream[i]: how the provider answers invocation i's call
  pc,        \* pc[i]: the await invocation i is suspended at
  message,   \* the handler's const message
  context,   \* the handler's const context
  response,  \* the handler's const response
  calls,     \* calls[i]: the fetch calls invocation i has issued
  reply,     \* reply[i]: the Response invocation i returned
  log,       \* log[i]: the console.error entries of invocation i
  after      \* after[i]: an invocation had returned before i ran its first
             \* statement past request.json() (history)

vars == <<env, request, upstream, pc, message, context, response, calls,
          reply, log, after>>

\* Mutant of Bind: the variable is declared at module level and shared by
\* the invocations.
BindShared(locals, i, value) == [j \in DOMAIN locals |-> value]

\* A block-scoped const of one invocation is bound to a value.
Bind(locals, i, value) == [locals EXCEPT ![i] = value]

\* Mutant of IssueFetch: the call is sent a second time.
IssueFetchTwice(issued, call) == Append(Append(issued, call), call)

\* fetch(...) is called: one more outbound call of the invocation.
IssueFetch(issued, call) == Append(issued, call)

\* One invocation arrives; the other slots stay idle.
InitAlone ==
  \E i \in Invocations :
    /\ request \in {r \in [Invocations -> RequestBodies \cup {NoRequest}] :
                      \A j \in Invocations : (r[j] = NoRequest) <=> (j # i)}
    /\ upstream \in {u \in [Invocations -> Outcomes \cup {NoOutcome}] :
                      \A j \in Invocations : (u[j] = NoOutcome) <=> (j # i)}

\* Every slot holds an invocation.
InitTogether ==
  /\ request \in [Invocations -> ConcurrentRequestBodies]
  /\ upstream \in [Invocations -> ConcurrentOutcomes]

\* No invocation has run a line of POST yet.
InitLocals ==
  /\ pc = [i \in Invocations |->
             IF request[i] = NoRequest THEN "idle" ELSE "request.json"]
  /\ message = [i \in Invocations |-> Undefined]
  /\ context = [i \in Invocations |-> Undefined]
  /\ response = [i \in Invocations |-> NoResponse]
  /\ calls = [i \in Invocations |-> <<>>]
  /\ reply = [i \in Invocations |-> NoReply]
  /\ log = [i \in Invocations |-> <<>>]
  /\ after = [i \in Invocations |-> FALSE]

Init ==
  /\ env \in EnvKeys
  /\ InitAlone \/ InitTogether
  /\ InitLocals

\* Every slot holds an invocation; the inputs that decide whether and where
\* an invocation stops.
InitFair ==
  /\ env = Str("gsk_live")
  /\ request \in [Invocations -> FairRequestBodies]
  /\ upstream \in [Invocations -> FairOutcomes]
  /\ InitLocals

(***************************************************************************)
(* POST, one action for each stretch between two awaits                    *)
(***************************************************************************)
\* Mutant of Catch: the failure is not answered, the handler awaits the
\* fetch again.
CatchRetry(i, error) ==
  /\ pc' = [pc EXCEPT ![i] = "fetch"]
  /\ UNCHANGED <<log, reply>>

\* Mutant of Catch: the catch block answers without console.error.
CatchSilent(i, error) ==
  /\ reply' = [reply EXCEPT ![i] = CatchResponse(error)]
  /\ pc' = [pc EXCEPT ![i] = "done"]
  /\ UNCHANGED log

\* catch (error) { console.error(...); return new Response(...) }
Catch(i, error) ==
  /\ log' = [log EXCEPT ![i] = Append(@, LogEntry(error))]
  /\ reply' = [reply EXCEPT ![i] = CatchResponse(error)]
  /\ pc' = [pc EXCEPT ![i] = "done"]

\* Mutant of RequestRead: with no credential configured the call is skipped
\* and the capability-description fallback is returned at once.
RequestReadShortCircuit(i) ==
  /\ pc[i] = "request.json"
  /\ LET parsed == JSONParse(request[i])
         msg == Get(parsed, "message")
         ctx == Get(parsed, "context")
     IN  IF IsThrow(msg)
         THEN /\ Catch(i, msg.error)
              /\ UNCHANGED <<message, context, calls>>
         ELSE IF ~Truthy(env)
         THEN /\ message' = Bind(message, i, msg)
              /\ context' = Bind(context, i, ctx)
              /\ reply' = [reply EXCEPT ![i] = RejectionResponse(NoResponse)]
              /\ pc' = [pc EXCEPT ![i] = "done"]
              /\ UNCHANGED <<calls, log>>
         ELSE /\ message' = Bind(message, i, msg)
              /\ context' = Bind(context, i, ctx)
              /\ calls' = [calls EXCEPT ![i] = IssueFetch(@, FetchCall(msg, ctx, env))]
              /\ pc' = [pc EXCEPT ![i] = "fetch"]
              /\ UNCHANGED <<reply, log>>
  /\ after' = [after EXCEPT ![i] = \E j \in Invocations : pc[j] = "done"]
  /\ UNCHANGED <<env, request, upstream, response>>

\* Mutant of RequestRead: the reply to an inbound body that was answered
\* before is served from a cache, with no call.
RequestReadCached(i) ==
  /\ pc[i] = "request.json"
  /\ LET parsed == JSONParse(request[i])
         msg == Get(parsed, "message")
         ctx == Get(parsed, "context")
         cached == {j \in Invocations \ {i} :
                      pc[j] = "done" /\ request[j] = request[i]}
     IN  IF IsThrow(msg)
         THEN /\ Catch(i, msg.error)
              /\ UNCHANGED <<message, context, calls>>
         ELSE IF cached # {}
         THEN /\ message' = Bind(message, i, msg)
              /\ context' = Bind(context, i, ctx)
              /\ reply' = [reply EXCEPT ![i] = reply[CHOOSE j \in cached : TRUE]]
              /\ pc' = [pc EXCEPT ![i] = "done"]
              /\ UNCHANGED <<calls, log>>
         ELSE /\ message' = Bind(message, i, msg)
              /\ context' = Bind(context, i, ctx)
              /\ calls' = [calls EXCEPT ![i] = IssueFetch(@, FetchCall(msg, ctx, env))]
              /\ pc' = [pc EXCEPT ![i] = "fetch"]
              /\ UNCHANGED <<reply, log>>
  /\ after' = [after EXCEPT ![i] = \E j \in Invocations : pc[j] = "done"]
  /\ UNCHANGED <<env, request, upstream, response>>

\* Mutant of RequestRead: if (!message) return a 400 validation error, with
\* no call.
RequestReadValidated(i) ==
  /\ pc[i] = "request.json"
  /\ LET parsed == JSONParse(request[i])
         msg == Get(parsed, "message")
         ctx == Get(parsed, "context")
     IN  IF IsThrow(msg)
         THEN /\ Catch(i, msg.error)
              /\ UNCHANGED <<message, context, calls>>
         ELSE IF ~Truthy(msg)
         THEN /\ message' = Bind(message, i, msg)
              /\ context' = Bind(context, i, ctx)
              /\ reply' = [reply EXCEPT ![i] =
                             [status |-> 400,
                              headers |-> [ContentType |-> "application/json"],
                              body |-> JSONStringify(
                                Obj([error |-> Str("message is required")]))]]
              /\ pc' = [pc EXCEPT ![i] = "done"]
              /\ UNCHANGED <<calls, log>>
         ELSE /\ message' = Bind(message, i, msg)
              /\ context' = Bind(context, i, ctx)
              /\ calls' = [calls EXCEPT ![i] = IssueFetch(@, FetchCall(msg, ctx, env))]
              /\ pc' = [pc EXCEPT ![i] = "fetch"]
              /\ UNCHANGED <<reply, log>>
  /\ after' = [after EXCEPT ![i] = \E j \in Invocations : pc[j] = "done"]
  /\ UNCHANGED <<env, request, upstream, response>>

\* await request.json() settles; the body is destructured and the fetch is
\* issued.
RequestRead(i) ==
  /\ pc[i] = "request.json"
  /\ LET parsed == JSONParse(request[i])
         msg == Get(parsed, "message")
         ctx == Get(parsed, "context")
     IN  IF IsThrow(msg)
         THEN /\ Catch(i, msg.error)
              /\ UNCHANGED <<message, context, calls>>
         ELSE /\ message' = Bind(message, i, msg)
              /\ context' = Bind(context, i, ctx)
              /\ calls' = [calls EXCEPT ![i] = IssueFetch(@, FetchCall(msg, ctx, env))]
              /\ pc' = [pc EXCEPT ![i] = "fetch"]
              /\ UNCHANGED <<reply, log>>
  /\ after' = [after EXCEPT ![i] = \E j \in Invocations : pc[j] = "done"]
  /\ UNCHANGED <<env, request, upstream, response>>

\* Mutant of FetchSettled: the !response.ok branch reads the error body
\* (await response.json()) before it returns the fallback.
FetchSettledReadsErrorBody(i) ==
  /\ pc[i] = "fetch"
  /\ upstream[i].kind # "hangs"
  /\ IF upstream[i].kind = "rejects"
     THEN /\ Catch(i, upstream[i].error)
          /\ UNCHANGED response
     ELSE LET resp == [ok |-> Ok(upstream[i].status),
                       status |-> upstream[i].status,
                       body |-> upstream[i].body]
              detail == JSONParse(resp.body)
          IN  /\ response' = Bind(response, i, resp)
              /\ IF ~resp.ok /\ IsThrow(detail)
                 THEN Catch(i, detail.error)
                 ELSE IF ~resp.ok
                 THEN /\ reply' = [reply EXCEPT ![i] = RejectionResponse(resp)]
                      /\ pc' = [pc EXCEPT ![i] = "done"]
                      /\ UNCHANGED log
                 ELSE /\ pc' = [pc EXCEPT ![i] = "response.json"]
                      /\ UNCHANGED <<reply, log>>
  /\ UNCHANGED <<env, request, upstream, message, context, calls, after>>

\* await fetch(...) settles: it rejects, or resolves to a response whose ok
\* flag is tested.
FetchSettled(i) ==
  /\ pc[i] = "fetch"
  /\ upstream[i].kind # "hangs"
  /\ IF upstream[i].kind = "rejects"
     THEN /\ Catch(i, upstream[i].error)
          /\ UNCHANGED response
     ELSE LET resp == [ok |-> Ok(upstream[i].status),
                       status |-> upstream[i].status,
                       body |-> upstream[i].body]
          IN  /\ response' = Bind(response, i, resp)
              /\ IF ~resp.ok
                 THEN /\ reply' = [reply EXCEPT ![i] = RejectionResponse(resp)]
                      /\ pc' = [pc EXCEPT ![i] = "done"]
                 ELSE /\ pc' = [pc EXCEPT ![i] = "response.json"]
                      /\ UNCHANGED reply
              /\ UNCHANGED log
  /\ UNCHANGED <<env, request, upstream, message, context, calls, after>>

\* await response.json() settles; the first choice's text is extracted and
\* returned.
ResponseRead(i) ==
  /\ pc[i] = "response.json"
  /\ LET data == JSONParse(response[i].body)
         botMessage == BotMessage(data)
     IN  IF IsThrow(botMessage)
         THEN Catch(i, botMessage.error)
         ELSE /\ reply' = [reply EXCEPT ![i] = SuccessResponse(botMessage)]
              /\ pc' = [pc EXCEPT ![i] = "done"]
              /\ UNCHANGED log
  /\ UNCHANGED <<env, request, upstream, message, context, response, calls,
                 after>>

\* POST run from its first line to its return with no other invocation in
\* flight: the response it returns (none while the fetch hangs) and the
\* fetch calls it issues.
POSTAlone(body, envKey, outcome) ==
  LET parsed == JSONParse(body)
      msg == Get(parsed, "message")
      ctx == Get(parsed, "context")
      data == JSONParse(outcome.body)
      botMessage == BotMessage(data)
  IN  IF IsThrow(msg)
      THEN [reply |-> CatchResponse(msg.error), calls |-> <<>>]
      ELSE [calls |-> <<FetchCall(msg, ctx, envKey)>>,
            reply |->
              IF outcome.kind = "hangs" THEN NoReply
              ELSE IF outcome.kind = "rejects" THEN CatchResponse(outcome.error)
              ELSE IF ~Ok(outcome.status) THEN RejectionResponse(outcome)
              ELSE IF IsThrow(botMessage) THEN CatchResponse(botMessage.error)
              ELSE SuccessResponse(botMessage)]

Next ==
  \E i \in Invocations :
    \/ RequestRead(i)
    \/ FetchSettled(i)
    \/ ResponseRead(i)

Spec == Init /\ [][Next]_vars

\* The event loop keeps resuming invocations whose await has settled: a
\* body read completes, and a fetch that does not hang resolves or rejects.
\* (An invocation takes at most three steps, so this resumes every one.)
Fairness == WF_vars(Next)

FairSpec == InitFair /\ [][Next]_vars /\ Fairness

(***************************************************************************)
(* Properties                                                              *)
(***************************************************************************)
Done(i) == pc[i] = "done"

\* The invocation's fetch was issued and the provider answered with a status.
Answered(i) ==
  /\ Len(calls[i]) > 0
  /\ pc[i] # "fetch"
  /\ upstream[i].kind = "responds"

\* The JSON body { message: text }.
MessageBody(text) == [t |-> "object", f |-> [message |-> [t |-> "string", s |-> text]]]

\* C1: every response the handler returns, whatever the inbound body and the
\* upstream outcome, has status 200 and a JSON object body with a message
\* field; an invocation that has not returned has produced nothing.
C1_AlwaysStatus200 ==
  \A i \in Invocations :
    IF Done(i)
    THEN /\ DOMAIN reply[i] = {"status", "headers", "body"}
         /\ reply[i].status = 200
         /\ reply[i].body.t = "object"
         /\ "message" \in DOMAIN reply[i].body.f
    ELSE reply[i] = NoReply

\* C1 witness: one invocation answered an unparseable inbound body and
\* another answered an upstream 500 with a malformed body.
C1_Witness ==
  \E i, j \in Invocations :
    /\ Done(i) /\ request[i] = BadText
    /\ Done(j) /\ Answered(j) /\ upstream[j].status = 500
    /\ upstream[j].body = BadText

\* C2: an invocation whose upstream call completed with a status outside
\* 200..299 returns the capability-description string, whatever the status
\* and the body.
C2_NonSuccessGivesCapability ==
  \A i \in Invocations :
    (Done(i) /\ Answered(i) /\ upstream[i].status \notin 200..299)
      => reply[i].body = MessageBody(CapabilityFallback)

\* C2 witness: an upstream 429 that carries a well-formed completion has
\* been answered.
C2_Witness ==
  \E i \in Invocations :
    /\ Done(i) /\ Answered(i)
    /\ upstream[i].status = 429
    /\ upstream[i].body # BadText

\* C3: an invocation whose fetch rejected returns the invitation string as
\* a response.
C3_RejectionGivesInvitation ==
  \A i \in Invocations :
    (Done(i) /\ Len(calls[i]) > 0 /\ upstream[i].kind = "rejects")
      => /\ reply[i].status = 200
         /\ reply[i].body = MessageBody(InvitationFallback)

\* C3 witness: a fetch has rejected and the invocation has returned.
C3_Witness ==
  \E i \in Invocations :
    Done(i) /\ Len(calls[i]) > 0 /\ upstream[i] = Rejects("ETIMEDOUT")

\* The provider answered with a success status and a body whose first
\* choice carries a non-empty string.
HasText(o) ==
  /\ o.kind = "responds"
  /\ o.status \in 200..299
  /\ o.body.t = "object"
  /\ "choices" \in DOMAIN o.body.f
  /\ o.body.f.choices.t = "array"
  /\ Len(o.body.f.choices.items) >= 1
  /\ o.body.f.choices.items[1].t = "object"
  /\ "message" \in DOMAIN o.body.f.choices.items[1].f
  /\ o.body.f.choices.items[1].f.message.t = "object"
  /\ "content" \in DOMAIN o.body.f.choices.items[1].f.message.f
  /\ o.body.f.choices.items[1].f.message.f.content.t = "string"
  /\ o.body.f.choices.items[1].f.message.f.content.s # ""

TextOf(o) == o.body.f.choices.items[1].f.message.f.content.s

\* C4: a success status with a non-empty first-choice text T gives the
\* reply { message: T }, T unchanged, whatever choices follow the first.
C4_TextReturnedUnchanged ==
  \A i \in Invocations :
    (Done(i) /\ Len(calls[i]) > 0 /\ HasText(upstream[i]))
      => /\ reply[i].body = MessageBody(TextOf(upstream[i]))
         /\ log[i] = <<>>

\* C4 witness: a body with two choices has been answered, and so has a text
\* with surrounding white space.
C4_Witness ==
  \E i \in Invocations :
    /\ Done(i) /\ Len(calls[i]) > 0 /\ HasText(upstream[i])
    /\ \/ Len(upstream[i].body.f.choices.items) = 2
       \/ TextOf(upstream[i]) = "  Hello!\n"

\* C5: a success status with an empty list of choices gives the apology
\* string, and no exception is raised.
C5_NoChoicesGivesApology ==
  \A i \in Invocations :
    (/\ Done(i) /\ Answered(i)
     /\ upstream[i].status \in 200..299
     /\ upstream[i].body.t = "object"
     /\ "choices" \in DOMAIN upstream[i].body.f
     /\ upstream[i].body.f.choices = [t |-> "array", items |-> <<>>])
      => /\ reply[i].body = MessageBody(Apology)
         /\ log[i] = <<>>

\* C5 witness: an empty list of choices has been answered.
C5_Witness ==
  \E i \in Invocations :
    /\ Done(i) /\ Answered(i)
    /\ upstream[i] = Responds(200, Obj([choices |-> Arr(<<>>)]))

\* The field of the inbound body, Undefined when the body has none.
Field(i, key) ==
  IF request[i].t = "object" /\ key \in DOMAIN request[i].f
  THEN request[i].f[key]
  ELSE [t |-> "undefined"]

NonEmptyString(v) == v.t = "string" /\ v.s # ""

\* C6: for a request with a present, non-empty message the reply's message
\* field is a non-empty string, whatever the upstream outcome.
C6_ReplyIsNonEmptyString ==
  \A i \in Invocations :
    (Done(i) /\ NonEmptyString(Field(i, "message")))
      => NonEmptyString(reply[i].body.f.message)

\* The failure path an invocation that returned has taken.
FailurePath(i) ==
  IF ~Done(i) THEN "none"
  ELSE IF Len(calls[i]) = 0 THEN "request body exception"
  ELSE IF upstream[i].kind = "rejects" THEN "fetch rejection"
  ELSE IF upstream[i].status \notin 200..299 THEN "non-success status"
  ELSE IF upstream[i].body = BadText THEN "response body exception"
  ELSE "none"

C8_NoInterference ==
  \A i \in Invocations :
    /\ pc[i] \in {"fetch", "response.json", "done"}
         => calls[i] = POSTAlone(request[i], env, upstream[i]).calls
    /\ Done(i) => reply[i] = POSTAlone(request[i], env, upstream[i]).reply

\* C8 witness: an invocation has returned the generated text while another,
\* with a different message and a different upstream answer, is suspended
\* at response.json().
C8_Witness ==
  \E i, j \in Invocations :
    /\ Done(i) /\ HasText(upstream[i])
    /\ pc[j] = "response.json"
    /\ message[i] # message[j]
    /\ upstream[i] # upstream[j]

\* C9 as stated: every invocation that returned made exactly one outbound
\* call.
C9_ExactlyOneCall ==
  \A i \in Invocations : Done(i) => Len(calls[i]) = 1

\* C9 amended: an invocation never makes more than one outbound call; it
\* makes exactly one once its inbound body has been read and destructured,
\* and none when the inbound body is not JSON or is null.
C9_AtMostOneCall ==
  \A i \in Invocations :
    Len(calls[i]) =
      IF pc[i] \in {"idle", "request.json"} THEN 0
      ELSE IF request[i] \in {BadText, [t |-> "null"]} THEN 0
      ELSE 1

\* C9 witness: a rejected call was not repeated, and an invocation with an
\* unparseable inbound body returned without a call.
C9_Witness ==
  \E i, j \in Invocations :
    /\ Done(i) /\ upstream[i].kind = "rejects" /\ Len(calls[i]) = 1
    /\ Done(j) /\ request[j] = BadText /\ Len(calls[j]) = 0

\* The instructions of a call: a system instruction, then a user
\* instruction with the request's message (no content when it has none).
Instructions(i, system) ==
  [t |-> "array",
   items |->
     <<[t |-> "object",
        f |-> [role |-> [t |-> "string", s |-> "system"], content |-> system]],
       IF Field(i, "message") = [t |-> "undefined"]
       THEN [t |-> "object", f |-> [role |-> [t |-> "string", s |-> "user"]]]
       ELSE [t |-> "object",
             f |-> [role |-> [t |-> "string", s |-> "user"],
                    content |-> Field(i, "message")]]>>]

\* C10 as stated: the system instruction is the request's context verbatim,
\* or the default when the request has no context.
C10_ContextVerbatim ==
  \A i \in Invocations :
    Len(calls[i]) > 0
      => calls[i][1].body.f.messages =
           Instructions(i, IF Field(i, "context") = [t |-> "undefined"]
                           THEN [t |-> "string", s |-> DefaultSystem]
                           ELSE Field(i, "context"))

\* C10 amended: the call carries exactly two instructions, system then
\* user; the system instruction is the request's context verbatim when the
\* context is a non-empty string and the default when the context is
\* absent, null or the empty string; the user instruction is the message
\* verbatim.
C10_TwoInstructions ==
  \A i \in Invocations :
    Len(calls[i]) > 0
      => calls[i][1].body.f.messages =
           Instructions(i, IF NonEmptyString(Field(i, "context"))
                           THEN Field(i, "context")
                           ELSE [t |-> "string", s |-> DefaultSystem])

\* C10 witness: a call has been issued for a request whose context is the
\* empty string.
C10_Witness ==
  \E i \in Invocations :
    /\ Len(calls[i]) > 0
    /\ Field(i, "context") = [t |-> "string", s |-> ""]
    /\ NonEmptyString(Field(i, "message"))

\* The inbound body is JSON that can be destructured.
Destructurable(i) == request[i] \notin {NoRequest, BadText, [t |-> "null"]}

\* C11: with GROQ_API_KEY absent or empty the handler still issues its one
\* call once the inbound body is read, authenticated with the placeholder
\* 'Bearer gsk_demo_key', and a provider rejection of it gives the
\* capability-description fallback with status 200.
C11_PlaceholderCredential ==
  env \in {[t |-> "undefined"], [t |-> "string", s |-> ""]}
    => \A i \in Invocations :
         /\ (Destructurable(i) /\ pc[i] # "request.json")
              => /\ Len(calls[i]) = 1
                 /\ calls[i][1].headers.Authorization = "Bearer gsk_demo_key"
         /\ (Done(i) /\ Answered(i) /\ upstream[i].status = 401)
              => /\ reply[i].status = 200
                 /\ reply[i].body = MessageBody(CapabilityFallback)

\* C11 witness: with an empty GROQ_API_KEY the provider has rejected the
\* call with 401 and the invocation has returned.
C11_Witness ==
  /\ env = [t |-> "string", s |-> ""]
  /\ \E i \in Invocations :
       Done(i) /\ Answered(i) /\ upstream[i].status = 401

\* C12: an invocation whose awaits settle eventually returns a reply; an
\* invocation whose fetch never settles never returns one.
C12_CompletesUnlessFetchHangs ==
  /\ <>(\A i \in Invocations :
          (request[i] # NoRequest
             /\ (Destructurable(i) => upstream[i].kind # "hangs"))
            => (Done(i) /\ reply[i] # NoReply))
  /\ [](\A i \in Invocations :
          (Destructurable(i) /\ upstream[i].kind = "hangs")
            => (~Done(i) /\ reply[i] = NoReply))

\* C12 witness: an invocation is suspended at a fetch that never settles
\* while another one has returned.
C12_Witness ==
  \E i, j \in Invocations :
    /\ pc[i] = "fetch" /\ upstream[i].kind = "hangs"
    /\ Done(j) /\ Len(calls[j]) = 1

\* The invocation's one fetch has been issued and has resolved or rejected.
Settled(i) ==
  /\ Len(calls[i]) = 1
  /\ pc[i] \notin {"request.json", "fetch"}
  /\ upstream[i].kind \in {"rejects", "responds"}

\* C13 as stated: in every invocation a reply exists only once the single
\* outbound call has been issued and has settled.
C13_ReplyOnlyAfterCall ==
  \A i \in Invocations : reply[i] # NoReply => Settled(i)

\* C13 amended: a reply to an inbound body that is JSON and can be
\* destructured exists only once the single outbound call has been issued
\* and has settled; a reply to a body that is not JSON or is null is
\* produced with no call issued.
C13_ReplyOnlyAfterCallOrBadBody ==
  \A i \in Invocations :
    reply[i] # NoReply
      => IF Destructurable(i) THEN Settled(i) ELSE calls[i] = <<>>

\* C13 witness: replies exist after a rejected call and after a resolved
\* one.
C13_Witness ==
  \E i, j \in Invocations :
    /\ reply[i] # NoReply /\ Settled(i) /\ upstream[i].kind = "rejects"
    /\ reply[j] # NoReply /\ Settled(j) /\ upstream[j].kind = "responds"

\* C14: every outbound call goes to the same URL with method POST and
\* carries model 'llama-3.3-70b-versatile', temperature 0.7 and max_tokens
\* 500, whatever fields the inbound body has.
C14_FixedCallParameters ==
  \A i \in Invocations :
    \A n \in 1..Len(calls[i]) :
      /\ calls[i][n].url = "https://api.groq.com/openai/v1/chat/completions"
      /\ calls[i][n].method = "POST"
      /\ DOMAIN calls[i][n].body.f
           = {"model", "messages", "temperature", "max_tokens"}
      /\ calls[i][n].body.f.model
           = [t |-> "string", s |-> "llama-3.3-70b-versatile"]
      /\ calls[i][n].body.f.temperature = [t |-> "number", n |-> 7, places |-> 1]
      /\ calls[i][n].body.f.max_tokens = [t |-> "number", n |-> 500]

\* C14 witness: a call has been issued for an inbound body that names a
\* model, a temperature, a token limit, a method and a URL of its own.
C14_Witness ==
  \E i \in Invocations :
    /\ Len(calls[i]) = 1
    /\ Field(i, "model") = [t |-> "string", s |-> "gpt-4"]
    /\ Field(i, "max_tokens") = [t |-> "number", n |-> 9999]

\* C15: an invocation that starts after other invocations have returned,
\* whatever they were and however they ended, issues the call and returns
\* the reply that the same request, credential and upstream outcome give
\* when handled first.
C15_NothingRetained ==
  \A i \in Invocations :
    after[i]
      => /\ calls[i] = POSTAlone(request[i], env, upstream[i]).calls
         /\ Done(i) => reply[i] = POSTAlone(request[i], env, upstream[i]).reply

\* C15 witness: an invocation returned the generated text after an earlier
\* invocation with the same inbound body had failed.
C15_Witness ==
  \E i, j \in Invocations :
    /\ Done(j) /\ ~after[j] /\ FailurePath(j) # "none"
    /\ Done(i) /\ after[i] /\ HasText(upstream[i])
    /\ request[i] = request[j]

\* The provider answered with a success status and a first choice that is
\* an object.
HasFirstChoice(o) ==
  /\ o.kind = "responds"
  /\ o.status \in 200..299
  /\ o.body.t = "object"
  /\ "choices" \in DOMAIN o.body.f
  /\ o.body.f.choices.t = "array"
  /\ Len(o.body.f.choices.items) >= 1
  /\ o.body.f.choices.items[1].t = "object"

\* The first choice has no message, or a null one, or a message with no
\* content, or with a null or empty content.
NoTextInFirstChoice(o) ==
  LET choice == o.body.f.choices.items[1].f
  IN  \/ "message" \notin DOMAIN choice
      \/ choice.message.t = "null"
      \/ /\ choice.message.t = "object"
         /\ \/ "content" \notin DOMAIN choice.message.f
            \/ choice.message.f.content.t = "null"
            \/ choice.message.f.content = [t |-> "string", s |-> ""]

\* C16: a success status with a first choice whose text is empty, null or
\* missing gives the apology string with status 200, and no exception.
C16_EmptyTextGivesApology ==
  \A i \in Invocations :
    (/\ Done(i) /\ Answered(i)
     /\ HasFirstChoice(upstream[i])
     /\ NoTextInFirstChoice(upstream[i]))
      => /\ reply[i].status = 200
         /\ reply[i].body = MessageBody(Apology)
         /\ log[i] = <<>>

\* C16 witness: a first choice with an empty text has been answered.
C16_Witness ==
  \E i \in Invocations :
    /\ Done(i) /\ Answered(i)
    /\ HasFirstChoice(upstream[i])
    /\ "message" \in DOMAIN upstream[i].body.f.choices.items[1].f
    /\ upstream[i].body.f.choices.items[1].f.message.t = "object"
    /\ "content" \in DOMAIN upstream[i].body.f.choices.items[1].f.message.f
    /\ upstream[i].body.f.choices.items[1].f.message.f.content
         = [t |-> "string", s |-> ""]

\* C17: a success status whose body is not JSON gives the invitation
\* string, not the capability-description string and not the apology.
C17_BadResponseBodyGivesInvitation ==
  \A i \in Invocations :
    (/\ Done(i) /\ Answered(i)
     /\ upstream[i].status \in 200..299
     /\ upstream[i].body = BadText)
      => /\ reply[i].body = MessageBody(InvitationFallback)
         /\ reply[i].body # MessageBody(CapabilityFallback)
         /\ reply[i].body # MessageBody(Apology)

\* C17 witness: a 200 whose body is not JSON has been answered.
C17_Witness ==
  \E i \in Invocations :
    /\ Done(i) /\ Answered(i)
    /\ upstream[i].status = 200
    /\ upstream[i].body = BadText

\* The upstream call completed with a status outside 200..299.
NonSuccess(i) == Answered(i) /\ upstream[i].status \notin 200..299

\* An exception is raised during the invocation: the inbound body is not
\* JSON or is null, the fetch rejects, or the body of a success response is
\* not JSON, is null, or has no choices (or null ones) to index.
Raises(i) ==
  \/ ~Destructurable(i)
  \/ /\ Len(calls[i]) > 0
     /\ pc[i] # "fetch"
     /\ \/ upstream[i].kind = "rejects"
        \/ /\ upstream[i].kind = "responds"
           /\ upstream[i].status \in 200..299
           /\ \/ upstream[i].body = BadText
              \/ upstream[i].body.t = "null"
              \/ /\ upstream[i].body.t = "object"
                 /\ \/ "choices" \notin DOMAIN upstream[i].body.f
                    \/ upstream[i].body.f.choices.t = "null"

\* The provider itself generated the given text.
Generated(i, text) ==
  Answered(i) /\ HasText(upstream[i]) /\ TextOf(upstream[i]) = text

\* C18 as stated: the capability-description string is returned if and only
\* if the upstream call completed with a non-success status, the catch
\* block's invitation string if and only if an exception was raised, and
\* the three strings differ.
C18_FallbackTiedToFailureClass ==
  /\ CapabilityFallback # InvitationFallback
  /\ CapabilityFallback # Apology
  /\ InvitationFallback # Apology
  /\ \A i \in Invocations :
       Done(i)
         => /\ (reply[i].body = MessageBody(CapabilityFallback)) <=> NonSuccess(i)
            /\ (log[i] # <<>> /\ reply[i].body = MessageBody(InvitationFallback))
                 <=> Raises(i)

\* C18 amended: the handler itself produces the capability-description
\* string if and only if the upstream call completed with a non-success
\* status, and the invitation string if and only if an exception was
\* raised; a reply carries one of these strings otherwise only when it is
\* the text the provider generated; the three strings differ.
C18_FallbackTiedUnlessGenerated ==
  /\ CapabilityFallback # InvitationFallback
  /\ CapabilityFallback # Apology
  /\ InvitationFallback # Apology
  /\ \A i \in Invocations :
       Done(i)
         => /\ (/\ reply[i].body = MessageBody(CapabilityFallback)
                /\ ~Generated(i, CapabilityFallback)) <=> NonSuccess(i)
            /\ (/\ reply[i].body = MessageBody(InvitationFallback)
                /\ ~Generated(i, InvitationFallback)) <=> Raises(i)
            /\ (log[i] # <<>>) <=> Raises(i)

\* C18 witness: one invocation returned after a non-success status and
\* another after an exception.
C18_Witness ==
  \E i, j \in Invocations :
    /\ Done(i) /\ NonSuccess(i)
    /\ Done(j) /\ Raises(j) /\ Len(calls[j]) > 0

\* C19: an invocation whose inbound body is not JSON, or is the JSON value
\* null, issues no outbound call and returns the invitation string with
\* status 200.
C19_BadRequestMakesNoCall ==
  \A i \in Invocations :
    request[i] \in {BadText, [t |-> "null"]}
      => /\ calls[i] = <<>>
         /\ pc[i] \in {"request.json", "done"}
         /\ Done(i) => /\ reply[i].status = 200
                       /\ reply[i].body = MessageBody(InvitationFallback)

\* C19 witness: an inbound null has been answered.
C19_Witness ==
  \E i \in Invocations :
    Done(i) /\ request[i] = [t |-> "null"] /\ upstream[i].kind = "responds"

\* C20: a success status with a JSON body that is null or has no choices
\* field gives the invitation string through the catch block, while a body
\* whose choices is an empty list gives the apology string; the two replies
\* differ.
C20_MissingChoicesVersusEmpty ==
  /\ MessageBody(InvitationFallback) # MessageBody(Apology)
  /\ \A i \in Invocations :
       (Done(i) /\ Answered(i) /\ upstream[i].status \in 200..299)
         => /\ (\/ upstream[i].body.t = "null"
                \/ /\ upstream[i].body.t = "object"
                   /\ "choices" \notin DOMAIN upstream[i].body.f)
                 => /\ reply[i].status = 200
                    /\ reply[i].body = MessageBody(InvitationFallback)
                    /\ Len(log[i]) = 1
            /\ (/\ upstream[i].body.t = "object"
                /\ "choices" \in DOMAIN upstream[i].body.f
                /\ upstream[i].body.f.choices = [t |-> "array", items |-> <<>>])
                 => /\ reply[i].status = 200
                    /\ reply[i].body = MessageBody(Apology)
                    /\ log[i] = <<>>

\* C20 witness: a 200 whose body is an object without choices has been
\* answered.
C20_Witness ==
  \E i \in Invocations :
    /\ Done(i) /\ Answered(i)
    /\ upstream[i].status = 200
    /\ upstream[i].body.t = "object"
    /\ "choices" \notin DOMAIN upstream[i].body.f


\* The inbound body is a JSON object whose message is absent or the empty
\* string.
NoMessage(i) ==
  /\ request[i].t = "object"
  /\ Field(i, "message") \in {[t |-> "undefined"], [t |-> "string", s |-> ""]}

\* The inbound body with its message replaced by a non-empty text.
WithMessage(body) ==
  [t |-> "object",
   f |-> [k \in DOMAIN body.f \cup {"message"} |->
            IF k = "message" THEN [t |-> "string", s |-> "Hi"] ELSE body.f[k]]]

\* C21: a request whose message is absent or the empty string still issues
\* the one outbound call once its body is read, the user instruction having
\* no content or an empty one, and its reply is the status-200 reply that the
\* same request with a non-empty message gets from the same upstream
\* outcome.
C21_NoMessageValidation ==
  \A i \in Invocations :
    NoMessage(i)
      => /\ pc[i] # "request.json"
              => /\ Len(calls[i]) = 1
                 /\ LET user == calls[i][1].body.f.messages.items[2].f
                    IN  IF Field(i, "message") = [t |-> "undefined"]
                        THEN "content" \notin DOMAIN user
                        ELSE user.content = [t |-> "string", s |-> ""]
         /\ Done(i)
              => /\ reply[i].status = 200
                 /\ reply[i]
                      = POSTAlone(WithMessage(request[i]), env, upstream[i]).reply

\* C21 witness: a request with no message has been answered with the text
\* the provider generated.
C21_Witness ==
  \E i \in Invocations :
    /\ Done(i) /\ Answered(i)
    /\ request[i].t = "object"
    /\ "message" \notin DOMAIN request[i].f
    /\ HasText(upstream[i])

\* The inbound body is a JSON object with a context that is the empty
\* string, null or 0.
EmptyContext(i) ==
  /\ request[i].t = "object"
  /\ "context" \in DOMAIN request[i].f
  /\ request[i].f.context \in {[t |-> "string", s |-> ""],
                               [t |-> "null"],
                               [t |-> "number", n |-> 0]}

\* The inbound body with its context removed.
WithoutContext(body) ==
  [t |-> "object", f |-> [k \in DOMAIN body.f \ {"context"} |-> body.f[k]]]

\* C22: a call issued for a request whose context is present but empty,
\* null or 0 carries the default system instruction, never an empty one, and
\* is the call the same request without a context gives.
C22_EmptyContextGivesDefault ==
  \A i \in Invocations :
    (EmptyContext(i) /\ Len(calls[i]) > 0)
      => LET system == calls[i][1].body.f.messages.items[1].f
         IN  /\ system.role = [t |-> "string", s |-> "system"]
             /\ "content" \in DOMAIN system
             /\ system.content
                  = [t |-> "string", s |-> "You are a helpful assistant."]
             /\ system.content # [t |-> "string", s |-> ""]
             /\ calls[i]
                  = POSTAlone(WithoutContext(request[i]), env, upstream[i]).calls

\* C22 witness: a request whose context is null has been answered.
C22_Witness ==
  \E i \in Invocations :
    /\ Done(i) /\ Len(calls[i]) > 0
    /\ request[i].t = "object"
    /\ "context" \in DOMAIN request[i].f
    /\ request[i].f.context = [t |-> "null"]

\* C23: an invocation has emitted a log entry exactly when it has returned
\* through the exception path, the entry is the single 'Chat API error:'
\* line and comes with the invitation reply; an invocation that returned
\* after a non-success status or with the apology has emitted none.
C23_LogExactlyOnException ==
  \A i \in Invocations :
    /\ (log[i] # <<>>) <=> (Done(i) /\ Raises(i))
    /\ log[i] # <<>>
         => /\ Len(log[i]) = 1
            /\ log[i][1][1] = "Chat API error:"
            /\ reply[i].body = MessageBody(InvitationFallback)
    /\ (Done(i) /\ NonSuccess(i)) => log[i] = <<>>
    /\ (Done(i) /\ reply[i].body = MessageBody(Apology)) => log[i] = <<>>

\* C23 witness: with no credential configured, one invocation returned
\* after a rejected fetch and logged it, and another returned after a
\* non-success status and logged nothing.
C23_Witness ==
  /\ env \in {[t |-> "undefined"], [t |-> "string", s |-> ""]}
  /\ \E i, j \in Invocations :
       /\ Done(i) /\ upstream[i].kind = "rejects" /\ Len(log[i]) = 1
       /\ Done(j) /\ NonSuccess(j) /\ log[j] = <<>>

\* C24: only an invocation whose upstream call completed with a success
\* status is ever suspended at the read of the response body; one whose call
\* completed with a non-success status has returned the
\* capability-description string, not the invitation string, and has raised
\* nothing, whatever the body is, a body that is not JSON included.
C24_ErrorBodyNeverRead ==
  \A i \in Invocations :
    /\ pc[i] = "response.json"
         => /\ upstream[i].kind = "responds"
            /\ upstream[i].status \in 200..299
    /\ NonSuccess(i)
         => /\ Done(i)
            /\ reply[i].body = MessageBody(CapabilityFallback)
            /\ reply[i].body # MessageBody(InvitationFallback)
            /\ log[i] = <<>>

\* C24 witness: a 401 whose body is not JSON has been answered.
C24_Witness ==
  \E i \in Invocations :
    /\ Done(i) /\ NonSuccess(i)
    /\ upstream[i].status = 401
    /\ upstream[i].body = BadText
=============================================================================
